---- MODULE Spec2Model ----
(***************************************************************************)
(* A model of src/main.py: the question matcher (split, the Levenshtein    *)
(* ratio cutoff, get_question_matches, InputResponse.from_request), the    *)
(* answer normalisation (normalize, linkify) and the websocket session     *)
(* (get_request_object, get_response_object, websocket_endpoint).          *)
(*                                                                         *)
(* A Python str is modelled as a sequence of one-character strings, so     *)
(* that punctuation removal, lowercasing, whitespace splitting, the edit   *)
(* distance and the regular expression work on characters as the code's    *)
(* do.                                                                     *)
(***************************************************************************)
EXTENDS Integers, Sequences, FiniteSets, TLC

VARIABLES
    pc,                 \* position of the operation or of the session coroutine
    text, words,        \* split(): its argument and its return value
    s1, s2, score,      \* Levenshtein.ratio(): its arguments and its return value
    user_input, questions, matches, instance_questions,
                        \* InputResponse.from_request(): input, corpus, locals, result
    answer, normalized, \* normalize(): its argument and its return value
    data, request, response, sent, received, exc
                        \* websocket_endpoint(): locals, transport history, exception

vars == << pc, text, words, s1, s2, score, user_input, questions, matches,
           instance_questions, answer, normalized, data, request, response,
           sent, received, exc >>

(***************************************************************************)
(* Bounds of the model.                                                    *)
(***************************************************************************)
MaxTextLen == 5

MaxTokenLen == 5

MaxQuestions == 11

MaxShortCorpus == 4

MaxFragments == 3

MaxMessages == 3

(***************************************************************************)
(* Characters.                                                             *)
(***************************************************************************)
LowerSeq ==
    << "a", "b", "c", "d", "e", "f", "g", "h", "i", "j", "k", "l", "m",
       "n", "o", "p", "q", "r", "s", "t", "u", "v", "w", "x", "y", "z" >>

UpperSeq ==
    << "A", "B", "C", "D", "E", "F", "G", "H", "I", "J", "K", "L", "M",
       "N", "O", "P", "Q", "R", "S", "T", "U", "V", "W", "X", "Y", "Z" >>

Range(f) == { f[i] : i \in DOMAIN f }

Lower == Range(LowerSeq)

Upper == Range(UpperSeq)

Digit == { "0", "1", "2", "3", "4", "5", "6", "7", "8", "9" }

\* string.punctuation; the grave accent, which a TLA+ string cannot hold, is
\* written "grave"
punctuation ==
    { "!", "\"", "#", "$", "%", "&", "'", "(", ")", "*", "+", ",", "-", ".",
      "/", ":", ";", "<", "=", ">", "?", "@", "[", "\\", "]", "^", "_", "grave",
      "{", "|", "}", "~" }

\* the characters str.split() separates on
Whitespace == { " ", "\t", "\n", "\r", "\f" }

\* all sequences over S of length at most n
SeqsUpTo(S, n) == UNION { [1..k -> S] : k \in 0..n }

RECURSIVE Concat(_)
\* the concatenation of a sequence of strings
Concat(ss) == IF ss = << >> THEN << >> ELSE Head(ss) \o Concat(Tail(ss))

(***************************************************************************)
(* split(question)                                                         *)
(***************************************************************************)
\* question.replace(char, "") for every char of string.punctuation
RemovePunctuation(str) == SelectSeq(str, LAMBDA c : c \notin punctuation)

\* str.lower() on one character
LowerChar(c) ==
    IF c \in Upper
    THEN LowerSeq[CHOOSE i \in DOMAIN UpperSeq : UpperSeq[i] = c]
    ELSE c

\* str.lower()
lower(str) == [i \in DOMAIN str |-> LowerChar(str[i])]

RECURSIVE SplitFrom(_, _, _)
\* str.split(): the maximal runs of non-whitespace characters, in order;
\* cur is the run being read, i the next position
SplitFrom(str, i, cur) ==
    IF i > Len(str)
    THEN IF cur = << >> THEN << >> ELSE << cur >>
    ELSE IF str[i] \in Whitespace
         THEN IF cur = << >>
              THEN SplitFrom(str, i + 1, << >>)
              ELSE << cur >> \o SplitFrom(str, i + 1, << >>)
         ELSE SplitFrom(str, i + 1, Append(cur, str[i]))

str_split(str) == SplitFrom(str, 1, << >>)

\* str.isdecimal()
isdecimal(word) == word # << >> /\ \A i \in DOMAIN word : word[i] \in Digit

\* the filter of the loop of split(), as a bug would have it: the numeric
\* words are not exempt from the length test
KeepWordNoDigits(word) == Len(word) > 2

\* the filter of the loop of split(), as a bug would have it: off by one in
\* the length test
KeepWordShort(word) == Len(word) > 1 \/ isdecimal(word)

\* the filter of the loop of split()
KeepWord(word) == Len(word) > 2 \/ isdecimal(word)

\* the first lines of split(): remove punctuation, then lowercase
NormalizeText(str) == lower(RemovePunctuation(str))

split(question) == SelectSeq(str_split(NormalizeText(question)), KeepWord)

(***************************************************************************)
(* Levenshtein.ratio(s1, s2, score_cutoff=SCORE_CUTOFF)                    *)
(***************************************************************************)
\* SCORE_CUTOFF = 0.8, as the fraction << numerator, denominator >>
SCORE_CUTOFF == << 4, 5 >>

MATCHES_LIMIT == 10

Max(a, b) == IF a >= b THEN a ELSE b

Min(a, b) == IF a <= b THEN a ELSE b

RECURSIVE LcsLen(_, _, _, _)
\* the length of a longest common subsequence of a[i..] and b[j..]
LcsLen(a, b, i, j) ==
    IF i > Len(a) \/ j > Len(b)
    THEN 0
    ELSE IF a[i] = b[j]
         THEN 1 + LcsLen(a, b, i + 1, j + 1)
         ELSE Max(LcsLen(a, b, i + 1, j), LcsLen(a, b, i, j + 1))

\* the indel distance: the least number of single-character insertions and
\* deletions that turn a into b
IndelDistance(a, b) == Len(a) + Len(b) - 2 * LcsLen(a, b, 1, 1)

\* the normalized indel similarity 1 - distance / (len1 + len2), as a
\* fraction; 1 for two empty strings
NormalizedSimilarity(a, b) ==
    IF Len(a) + Len(b) = 0
    THEN << 1, 1 >>
    ELSE << Len(a) + Len(b) - IndelDistance(a, b), Len(a) + Len(b) >>

\* x >= y for fractions with positive denominators
FracGeq(x, y) == x[1] * y[2] >= y[1] * x[2]

\* x > y for fractions with positive denominators
FracGt(x, y) == x[1] * y[2] > y[1] * x[2]

\* the cutoff test, as a bug would have it: the boundary value does not pass
ReachesCutoffStrict(sim, cutoff) == FracGt(sim, cutoff)

\* the cutoff test of Levenshtein.ratio: a similarity below score_cutoff is
\* returned as 0
ReachesCutoff(sim, cutoff) == FracGeq(sim, cutoff)

LevenshteinRatio(a, b, cutoff) ==
    IF ReachesCutoff(NormalizedSimilarity(a, b), cutoff)
    THEN NormalizedSimilarity(a, b)
    ELSE << 0, 1 >>

\* the truth value of a float: it is not 0.0
Truthy(x) == x[1] # 0

\* if Levenshtein.ratio(question_word, user_word, score_cutoff=SCORE_CUTOFF)
isMatch(question_word, user_word) ==
    Truthy(LevenshteinRatio(question_word, user_word, SCORE_CUTOFF))

(***************************************************************************)
(* get_question_matches(user_input, questions)                             *)
(***************************************************************************)
RECURSIVE CountUserWords(_, _, _)
\* the inner loop: the user words from position j on that match question_word
CountUserWords(question_word, user_words, j) ==
    IF j > Len(user_words)
    THEN 0
    ELSE (IF isMatch(question_word, user_words[j]) THEN 1 ELSE 0)
           + CountUserWords(question_word, user_words, j + 1)

RECURSIVE CountQuestionWords(_, _, _)
\* the outer loop: matches_number over the question words from position i on
CountQuestionWords(question_words, user_words, i) ==
    IF i > Len(question_words)
    THEN 0
    ELSE CountUserWords(question_words[i], user_words, 1)
           + CountQuestionWords(question_words, user_words, i + 1)

\* matches_number, as a bug would have it: a question word scores at most
\* once, however many user words it matches
MatchesNumberOncePerWord(question, user_words) ==
    LET question_words == split(question)
    IN  Cardinality({ i \in DOMAIN question_words :
            \E j \in DOMAIN user_words : isMatch(question_words[i], user_words[j]) })

\* matches_number of one question
MatchesNumber(question, user_words) ==
    LET question_words == split(question)
    IN  CountQuestionWords(question_words, user_words, 1)

RECURSIVE CollectMatches(_, _, _)
\* the loop over the questions from position i on: the (question,
\* matches_number) tuples with matches_number > 0, in the order of questions
CollectMatches(qs, user_words, i) ==
    IF i > Len(qs)
    THEN << >>
    ELSE LET matches_number == MatchesNumber(qs[i], user_words)
         IN  (IF matches_number > 0
              THEN << << qs[i], matches_number >> >>
              ELSE << >>)
               \o CollectMatches(qs, user_words, i + 1)

\* where a stable descending sort puts m in the sorted ms, as a bug would
\* have it: before the entries of equal key
InsertBeforeEqual(ms, m) ==
    LET k == Cardinality({ i \in DOMAIN ms : ms[i][2] > m[2] })
    IN  SubSeq(ms, 1, k) \o << m >> \o SubSeq(ms, k + 1, Len(ms))

\* where a stable descending sort puts m, an entry later in the input than
\* all of the sorted ms: after the entries of greater or equal key
InsertSorted(ms, m) ==
    LET k == Cardinality({ i \in DOMAIN ms : ms[i][2] >= m[2] })
    IN  SubSeq(ms, 1, k) \o << m >> \o SubSeq(ms, k + 1, Len(ms))

RECURSIVE SortFrom(_, _, _)
\* matches.sort(key=lambda x: x[1], reverse=True): a stable sort, reverse
\* keeps the input order of equal keys
SortFrom(ms, i, sorted) ==
    IF i > Len(ms)
    THEN sorted
    ELSE SortFrom(ms, i + 1, InsertSorted(sorted, ms[i]))

SortByMatchesDescending(ms) == SortFrom(ms, 1, << >>)

get_question_matches(input, qs) ==
    LET user_words == split(input)
    IN  SortByMatchesDescending(CollectMatches(qs, user_words, 1))

\* the slice of from_request, as a bug would have it: no truncation
TakeAll(ms, limit) == ms

\* matches[:MATCHES_LIMIT]
Take(ms, limit) == SubSeq(ms, 1, Min(limit, Len(ms)))

\* elem[0] for elem in ms
QuestionsOf(ms) == [i \in DOMAIN ms |-> ms[i][1]]

(***************************************************************************)
(* linkify(string) and normalize(string)                                   *)
(***************************************************************************)
\* the first character class of the url pattern,
\* [(http(s)?):\/\/(www\.)?a-zA-Z0-9@:%._\+~#=]
UrlHeadChars ==
    Lower \cup Upper \cup Digit
      \cup { "(", ")", "?", ":", "/", ".", "@", "%", "_", "+", "~", "#", "=" }

\* the last character class of the url pattern, [-a-zA-Z0-9@:%_\+.~#?&//=]
UrlTailChars ==
    Lower \cup Upper \cup Digit
      \cup { "-", "@", ":", "%", "_", "+", ".", "~", "#", "?", "&", "/", "=" }

\* \w
WordChars == Lower \cup Upper \cup Digit \cup { "_" }

\* \b at the place before position i of str (1-based), after a word character
BoundaryBefore(str, i) == i > Len(str) \/ str[i] \notin WordChars

\* the << n1, n2 >> for which the pattern matches at position s: n1 in
\* {2,256} head characters, a dot, n2 in {2,6} lowercase letters, then \b
HeadAndDomain(str, s) ==
    { c \in (2..Min(256, Len(str))) \X (2..6) :
        /\ s + c[1] + c[2] <= Len(str)
        /\ \A k \in s..(s + c[1] - 1) : str[k] \in UrlHeadChars
        /\ str[s + c[1]] = "."
        /\ \A k \in (s + c[1] + 1)..(s + c[1] + c[2]) : str[k] \in Lower
        /\ BoundaryBefore(str, s + c[1] + c[2] + 1) }

\* the greedy choice: the longest head, and for it the longest domain
GreedyChoice(cs) ==
    CHOOSE c \in cs :
        \A d \in cs : d[1] < c[1] \/ (d[1] = c[1] /\ d[2] <= c[2])

RECURSIVE TailEnd(_, _)
\* the last position of the run of tail characters that starts at position i
TailEnd(str, i) ==
    IF i <= Len(str) /\ str[i] \in UrlTailChars
    THEN TailEnd(str, i + 1)
    ELSE i - 1

\* the match at position s, as << match.start(), match.end() >> (0-based,
\* end exclusive); defined when HeadAndDomain(str, s) is not empty
MatchAt(str, s) ==
    LET c == GreedyChoice(HeadAndDomain(str, s))
    IN  << s - 1, TailEnd(str, s + c[1] + c[2] + 1) >>

RECURSIVE FindFrom(_, _)
\* re.finditer(pattern, str) from position pos on (1-based): the leftmost
\* match, then the search goes on at its end
FindFrom(str, pos) ==
    IF pos > Len(str)
    THEN << >>
    ELSE IF HeadAndDomain(str, pos) = {}
         THEN FindFrom(str, pos + 1)
         ELSE LET m == MatchAt(str, pos)
              IN  << m >> \o FindFrom(str, m[2] + 1)

finditer(str) == FindFrom(str, 1)

\* f"<a href='{link}'>{link}</a>"
Anchor(link) ==
    << "<", "a", " ", "h", "r", "e", "f", "=", "'" >> \o link
      \o << "'", ">" >> \o link \o << "<", "/", "a", ">" >>

\* string[a:b] for 0 <= a <= b, b clamped to the end
Slice(str, a, b) == SubSeq(str, a + 1, Min(b, Len(str)))

\* the body of the loop of linkify on the current string and one match
ReplaceMatch(str, m) ==
    Slice(str, 0, m[1]) \o Anchor(Slice(str, m[1], m[2]))
      \o Slice(str, m[2], Len(str))

RECURSIVE LinkifyLoop(_, _, _)
\* the loop of linkify: ms are the matches of the string as it was passed
\* in, str is the string as rebuilt so far
LinkifyLoop(str, ms, i) ==
    IF i > Len(ms)
    THEN str
    ELSE LET rebuilt == ReplaceMatch(str, ms[i])
         IN  LinkifyLoop(rebuilt, ms, i + 1)

linkify(str) ==
    LET ms == finditer(str)
    IN  LinkifyLoop(str, ms, 1)

\* string.replace("\n", "<br>")
ReplaceNewlines(str) ==
    Concat([i \in DOMAIN str |->
              IF str[i] = "\n" THEN << "<", "b", "r", ">" >> ELSE << str[i] >>])

normalize(str) == linkify(ReplaceNewlines(str))

(***************************************************************************)
(* The corpus: the rows of the questions table.                            *)
(***************************************************************************)
\* the rows, in the order select(Question) yields them; pictures_links is
\* << >> for NULL and << links >> for a string:
\*   "abcd abcd" | "see ab.cd\nxy.io/a-b" | "p.png;q.png"
\*   "abd 12?"   | "hi"                   | NULL
\*   "abcde"     | "at ab.cd"             | "r.png"
DB ==
    << [ question |-> << "a", "b", "c", "d", " ", "a", "b", "c", "d" >>,
         answer |-> << "s", "e", "e", " ", "a", "b", ".", "c", "d", "\n",
                       "x", "y", ".", "i", "o", "/", "a", "-", "b" >>,
         pictures_links |-> << << "p", ".", "p", "n", "g", ";",
                                  "q", ".", "p", "n", "g" >> >> ],
       [ question |-> << "a", "b", "d", " ", "1", "2", "?" >>,
         answer |-> << "h", "i" >>,
         pictures_links |-> << >> ],
       [ question |-> << "a", "b", "c", "d", "e" >>,
         answer |-> << "a", "t", " ", "a", "b", ".", "c", "d" >>,
         pictures_links |-> << << "r", ".", "p", "n", "g" >> >> ] >>

\* DB_PICTURES_PATH = "./images/db/"
DB_PICTURES_PATH ==
    << ".", "/", "i", "m", "a", "g", "e", "s", "/", "d", "b", "/" >>

get_questions == [i \in DOMAIN DB |-> DB[i].question]

\* session.scalar(stmt) is not None
InDB(question) == \E i \in DOMAIN DB : DB[i].question = question

\* session.scalar(stmt)
db_question(question) == DB[CHOOSE i \in DOMAIN DB : DB[i].question = question]

RECURSIVE SplitOn(_, _, _, _)
\* str.split(sep) for a one-character sep: the pieces between the
\* separators, the empty ones included
SplitOn(str, sep, i, cur) ==
    IF i > Len(str)
    THEN << cur >>
    ELSE IF str[i] = sep
         THEN << cur >> \o SplitOn(str, sep, i + 1, << >>)
         ELSE SplitOn(str, sep, i + 1, Append(cur, str[i]))

\* get_answer(question) when the question is in the db:
\* << answer, links to pictures >>
get_answer(question) ==
    LET row == db_question(question)
    IN  << row.answer,
           IF row.pictures_links # << >>
           THEN SplitOn(row.pictures_links[1], ";", 1, << >>)
           ELSE << >> >>

(***************************************************************************)
(* Requests and responses.                                                 *)
(***************************************************************************)
\* the names of Request.__subclasses__(), with the fields of each
RequestFields == [ InputRequest |-> { "input" }, QuestionRequest |-> { "question" } ]

\* the names of Response.__subclasses__()
ResponseTypes == { "InputResponse", "QuestionResponse" }

\* f"{name.removesuffix('Request')}Response"
ResponseTypeName(request_type_name) ==
    CASE request_type_name = "InputRequest" -> "InputResponse"
      [] request_type_name = "QuestionRequest" -> "QuestionResponse"
      [] OTHER -> "Response"

\* the exception get_request_object(dat) raises, "none" when it returns
RequestError(dat) ==
    IF "type" \notin DOMAIN dat
    THEN "KeyError"
    ELSE IF dat.type \notin DOMAIN RequestFields
         THEN "ValueError"
         ELSE IF (DOMAIN dat) \ { "type" } \subseteq RequestFields[dat.type]
              THEN "none"
              ELSE "TypeError"

\* request_type.from_data(data): cls(**data), a missing field takes its
\* default ""; the class is kept as the field class
RequestObject(dat) ==
    IF dat.type = "InputRequest"
    THEN [ class |-> "InputRequest",
           input |-> IF "input" \in DOMAIN dat THEN dat.input ELSE << >> ]
    ELSE [ class |-> "QuestionRequest",
           question |-> IF "question" \in DOMAIN dat THEN dat.question ELSE << >> ]

\* the exception get_response_object(req) raises, "none" when it returns
ResponseError(req) ==
    IF ResponseTypeName(req.class) \notin ResponseTypes
    THEN "ValueError"
    ELSE IF req.class = "QuestionRequest" /\ ~InDB(req.question)
         THEN "ValueError"
         ELSE "none"

\* InputResponse.from_request(req)
InputResponse_from_request(req) ==
    [ class |-> "InputResponse",
      questions |->
        QuestionsOf(Take(get_question_matches(req.input, get_questions),
                         MATCHES_LIMIT)) ]

\* QuestionResponse.from_request(req), the question being in the db
QuestionResponse_from_request(req) ==
    LET got == get_answer(req.question)
    IN  [ class |-> "QuestionResponse",
          question |-> req.question,
          answer |-> normalize(got[1]),
          pictures |-> [i \in DOMAIN got[2] |-> DB_PICTURES_PATH \o got[2][i]] ]

\* response_type.from_request(req)
ResponseObject(req) ==
    IF ResponseTypeName(req.class) = "InputResponse"
    THEN InputResponse_from_request(req)
    ELSE QuestionResponse_from_request(req)

\* Response.to_dict, as a bug would have it: the tag is the name of the
\* base class
to_dict_base_tag(resp) ==
    [ k \in ((DOMAIN resp) \ { "class" }) \cup { "type" } |->
        IF k = "type" THEN "Response" ELSE resp[k] ]

\* Response.to_dict: the fields of the response, and its class name as "type"
to_dict(resp) ==
    [ k \in ((DOMAIN resp) \ { "class" }) \cup { "type" } |->
        IF k = "type" THEN resp.class ELSE resp[k] ]

(***************************************************************************)
(* The tokenizer on its own: split() applied to a text.                    *)
(***************************************************************************)
\* "What is 2+2? A: it's 4!"
ExampleText ==
    << "W", "h", "a", "t", " ", "i", "s", " ", "2", "+", "2", "?", " ", "A",
       ":", " ", "i", "t", "'", "s", " ", "4", "!" >>

\* a lowercase letter, an uppercase letter, a digit, a punctuation character
\* and a whitespace character
SplitAlphabet == { "a", "B", "1", "+", " " }

SplitInputs == SeqsUpTo(SplitAlphabet, MaxTextLen) \cup { ExampleText }

SplitIdle == text = << >> /\ words = << >>

RatioIdle == s1 = << >> /\ s2 = << >> /\ score = << 0, 1 >>

MatchIdle ==
    /\ user_input = << >>
    /\ questions = << >>
    /\ matches = << >>
    /\ instance_questions = << >>

NormalizeIdle == answer = << >> /\ normalized = << >>

SessionIdle ==
    /\ data = << >>
    /\ request = << >>
    /\ response = << >>
    /\ sent = << >>
    /\ received = << >>
    /\ exc = "none"

SplitInit ==
    /\ pc = "split"
    /\ text \in SplitInputs
    /\ words = << >>
    /\ RatioIdle /\ MatchIdle /\ NormalizeIdle /\ SessionIdle

\* words = await split(text)
Split ==
    /\ pc = "split"
    /\ words' = split(text)
    /\ pc' = "split_done"
    /\ UNCHANGED << text, s1, s2, score, user_input, questions, matches,
                    instance_questions, answer, normalized, data, request,
                    response, sent, received, exc >>

SplitNext == Split

SplitSpec == SplitInit /\ [][SplitNext]_vars

(***************************************************************************)
(* Claims about split().                                                   *)
(***************************************************************************)
AllDigits(w) == w # << >> /\ \A i \in DOMAIN w : w[i] \in Digit

AllLetters(w) == \A i \in DOMAIN w : w[i] \in Lower \cup Upper

\* the raw words of str: the maximal runs of non-whitespace characters, each
\* as << first position, last position >>
RawWords(str) ==
    { r \in (1..Len(str)) \X (1..Len(str)) :
        /\ r[1] <= r[2]
        /\ \A k \in r[1]..r[2] : str[k] \notin Whitespace
        /\ r[1] = 1 \/ str[r[1] - 1] \in Whitespace
        /\ r[2] = Len(str) \/ str[r[2] + 1] \in Whitespace }

\* the raw words of str that are longer than 2 or all decimal digits
KeptRawWords(str) ==
    { r \in RawWords(str) :
        r[2] - r[1] + 1 > 2 \/ AllDigits(SubSeq(str, r[1], r[2])) }

\* ws is the kept raw words of str, in the order of str
IsKeptWordsOf(ws, str) ==
    /\ Len(ws) = Cardinality(KeptRawWords(str))
    /\ \A r \in KeptRawWords(str) :
         ws[1 + Cardinality({ q \in KeptRawWords(str) : q[1] < r[1] })]
           = SubSeq(str, r[1], r[2])

\* C4 as stated: of "What is 2+2? A: it's 4!" the tokens "2" and "4" are kept
\* and so is "what", "is" and "a" are dropped; and in general a raw word of
\* the lowercased text without punctuation is kept iff it is longer than 2 or
\* all decimal digits, in input order.
C4_ExampleKeepsTwoAndFour ==
    pc = "split_done" =>
      /\ text = ExampleText =>
           /\ << "2" >> \in Range(words)
           /\ << "4" >> \in Range(words)
           /\ << "w", "h", "a", "t" >> \in Range(words)
           /\ << "i", "s" >> \notin Range(words)
           /\ << "a" >> \notin Range(words)
      /\ IsKeptWordsOf(words, NormalizeText(text))

\* C4 as amended: "What is 2+2? A: it's 4!" tokenizes to what, 22, its, 4:
\* the punctuation is removed before the text is cut at whitespace, so that
\* "2+2?" is the one numeric token "22" (no token "2" exists); "is" and "a"
\* are dropped, "4" and "what" are kept. In general a raw word of the
\* lowercased text without punctuation is kept iff it is longer than 2 or all
\* decimal digits, in input order.
C4_SplitKeepsLongOrNumeric ==
    pc = "split_done" =>
      /\ text = ExampleText =>
           words = << << "w", "h", "a", "t" >>, << "2", "2" >>,
                      << "i", "t", "s" >>, << "4" >> >>
      /\ IsKeptWordsOf(words, NormalizeText(text))

C4_Witness == pc = "split_done" /\ text = ExampleText /\ Len(words) = 4

\* C5 as stated: every token of split() is purely numeric or alphabetic with
\* length >= 3 (no punctuation, no mix of letters and digits), and a text of
\* only punctuation and whitespace gives no token.
C5_TokensNumericOrAlphabetic ==
    pc = "split_done" =>
      /\ \A i \in DOMAIN words :
           AllDigits(words[i]) \/ (Len(words[i]) >= 3 /\ AllLetters(words[i]))
      /\ (\A i \in DOMAIN text : text[i] \in punctuation \cup Whitespace)
           => words = << >>

\* C5 as amended: every token of split() is purely numeric (any length) or
\* has length >= 3; no token holds an ASCII punctuation character, a
\* whitespace character or an uppercase ASCII letter, but a token of length
\* >= 3 may mix letters and digits (such as "a1b"); a text of only
\* punctuation and whitespace gives no token.
C5_TokensNumericOrLong ==
    pc = "split_done" =>
      /\ \A i \in DOMAIN words :
           /\ AllDigits(words[i]) \/ Len(words[i]) >= 3
           /\ \A k \in DOMAIN words[i] :
                words[i][k] \notin punctuation \cup Whitespace \cup Upper
      /\ (\A i \in DOMAIN text : text[i] \in punctuation \cup Whitespace)
           => words = << >>

\* a token that mixes letters and digits, beside a short numeric one
C5_Witness ==
    /\ pc = "split_done"
    /\ \E i \in DOMAIN words :
         ~AllDigits(words[i]) /\ ~AllLetters(words[i])

(***************************************************************************)
(* The word matcher on its own: Levenshtein.ratio applied to two tokens.   *)
(***************************************************************************)
RatioAlphabet == { "a", "b" }

Tokens == SeqsUpTo(RatioAlphabet, MaxTokenLen)

RatioInit ==
    /\ pc = "ratio"
    /\ s1 \in Tokens
    /\ s2 \in Tokens
    /\ score = << 0, 1 >>
    /\ SplitIdle /\ MatchIdle /\ NormalizeIdle /\ SessionIdle

\* score = Levenshtein.ratio(s1, s2, score_cutoff=SCORE_CUTOFF)
Ratio ==
    /\ pc = "ratio"
    /\ score' = LevenshteinRatio(s1, s2, SCORE_CUTOFF)
    /\ pc' = "ratio_done"
    /\ UNCHANGED << text, words, s1, s2, user_input, questions, matches,
                    instance_questions, answer, normalized, data, request,
                    response, sent, received, exc >>

RatioNext == Ratio

RatioSpec == RatioInit /\ [][RatioNext]_vars

\* C6: the match test (the ratio with score_cutoff = 0.8, as a boolean) is
\* symmetric, true of a non-empty token and itself, and true exactly when the
\* normalized similarity of the two tokens is >= 0.8, the value 0.8 included.
C6_IsMatchSymmetricReflexiveCutoff ==
    pc = "ratio_done" =>
      /\ Truthy(score) <=> isMatch(s2, s1)
      /\ (s1 = s2 /\ s1 # << >>) => Truthy(score)
      /\ Truthy(score) <=>
           5 * (Len(s1) + Len(s2) - IndelDistance(s1, s2))
             >= 4 * (Len(s1) + Len(s2))

\* two different tokens whose similarity is the boundary value 0.8 exactly
C6_Witness ==
    /\ pc = "ratio_done"
    /\ s1 # s2
    /\ 5 * IndelDistance(s1, s2) = Len(s1) + Len(s2)
    /\ Truthy(score)

(***************************************************************************)
(* The matcher on its own: InputResponse.from_request on a corpus.         *)
(***************************************************************************)
\* "abcd abcd", "abd 12?" and "12 abd 12"
QuestionPool ==
    { << "a", "b", "c", "d", " ", "a", "b", "c", "d" >>,
      << "a", "b", "d", " ", "1", "2", "?" >>,
      << "1", "2", " ", "a", "b", "d", " ", "1", "2" >> }

\* the questions of the long corpora: "abcd abcd" and "abd 12?"
LongPool ==
    { << "a", "b", "c", "d", " ", "a", "b", "c", "d" >>,
      << "a", "b", "d", " ", "1", "2", "?" >> }

\* the corpora: the short ones over the whole pool, and the ones over two
\* questions that are long enough to exceed MATCHES_LIMIT
Corpora ==
    SeqsUpTo(QuestionPool, MaxShortCorpus) \cup SeqsUpTo(LongPool, MaxQuestions)

\* "", "is a", "abcde abcdef", "Abd abd abcd", "12 abd", "12"
UserInputs ==
    { << >>,
      << "i", "s", " ", "a" >>,
      << "a", "b", "c", "d", "e", " ", "a", "b", "c", "d", "e", "f" >>,
      << "A", "b", "d", " ", "a", "b", "d", " ", "a", "b", "c", "d" >>,
      << "1", "2", " ", "a", "b", "d" >>,
      << "1", "2" >> }

MatchInit ==
    /\ pc = "match"
    /\ user_input \in UserInputs
    /\ questions \in Corpora
    /\ matches = << >>
    /\ instance_questions = << >>
    /\ SplitIdle /\ RatioIdle /\ NormalizeIdle /\ SessionIdle

\* InputResponse.from_request(InputRequest(user_input)), get_questions()
\* returning questions
FromInputRequest ==
    /\ pc = "match"
    /\ matches' = get_question_matches(user_input, questions)
    /\ instance_questions' = QuestionsOf(Take(matches', MATCHES_LIMIT))
    /\ pc' = "match_done"
    /\ UNCHANGED << text, words, s1, s2, score, user_input, questions, answer,
                    normalized, data, request, response, sent, received, exc >>

MatchNext == FromInputRequest

MatchSpec == MatchInit /\ [][MatchNext]_vars

\* the number of (question word, user word) position pairs of question q and
\* the utterance that are approximately equal
PairCountOf(q, u) ==
    LET qw == split(q)
        uw == split(u)
    IN  Cardinality({ p \in (DOMAIN qw) \X (DOMAIN uw) : isMatch(qw[p[1]], uw[p[2]]) })

\* PairCountOf, tabulated over the utterances and the questions of the model
PairCountTable == [u \in UserInputs |-> [q \in QuestionPool |-> PairCountOf(q, u)]]

PairCount(q) == PairCountTable[user_input][q]

\* the positions of the corpus whose question has at least one such pair
Matching == { i \in DOMAIN questions : PairCount(questions[i]) >= 1 }

\* C1: the question list of an input response has at most MATCHES_LIMIT
\* entries, has all matching questions when they are fewer than the limit, and
\* is the first min(limit, number of matches) question texts of the ranked
\* list, in ranked order.
C1_AtMostLimitInRankedOrder ==
    pc = "match_done" =>
      /\ Len(instance_questions) <= MATCHES_LIMIT
      /\ Len(instance_questions) = Min(MATCHES_LIMIT, Cardinality(Matching))
      /\ Cardinality(Matching) < MATCHES_LIMIT =>
           \A i \in Matching : questions[i] \in Range(instance_questions)
      /\ \A k \in DOMAIN instance_questions :
           instance_questions[k] = matches[k][1]

\* more matches than the limit, and the list cut to the limit
C1_Witness ==
    /\ pc = "match_done"
    /\ Len(matches) > MATCHES_LIMIT
    /\ Len(instance_questions) = MATCHES_LIMIT

\* C2: the list of get_question_matches is sorted by matchCount descending,
\* and the questions of equal matchCount keep the relative order they have
\* in the input sequence.
C2_SortedDescendingStable ==
    pc = "match_done" =>
      /\ \A k \in 1..(Len(matches) - 1) : matches[k][2] >= matches[k + 1][2]
      /\ \A c \in { matches[k][2] : k \in DOMAIN matches } :
           QuestionsOf(SelectSeq(matches, LAMBDA m : m[2] = c))
             = SelectSeq(questions, LAMBDA q : PairCount(q) = c)

\* two different questions tie, and a question later in the input outranks
\* an earlier one
C2_Witness ==
    /\ pc = "match_done"
    /\ \E k \in 1..(Len(matches) - 1) :
         matches[k][2] = matches[k + 1][2] /\ matches[k][1] # matches[k + 1][1]
    /\ \E i, j \in DOMAIN questions :
         i < j /\ PairCount(questions[i]) >= 1
               /\ PairCount(questions[j]) > PairCount(questions[i])

\* C3: the matchCount of each emitted question is the number of its
\* approximately equal (question word, user word) position pairs, a question
\* is emitted iff that number is >= 1 (once per position of the corpus), and
\* with no such pair at all the result is the empty sequence.
C3_CountsPairsEmitsPositive ==
    pc = "match_done" =>
      /\ \A k \in DOMAIN matches :
           /\ matches[k][1] \in Range(questions)
           /\ matches[k][2] = PairCount(matches[k][1])
           /\ matches[k][2] >= 1
      /\ \A i \in DOMAIN questions :
           i \in Matching <=> \E k \in DOMAIN matches : matches[k][1] = questions[i]
      /\ Len(matches) = Cardinality(Matching)
      /\ Matching = {} => matches = << >>

\* a question word that matches several user words (a many-to-many count),
\* beside a question that is not emitted
C3_Witness ==
    /\ pc = "match_done"
    /\ \E k \in DOMAIN matches :
         matches[k][2] > Len(split(matches[k][1]))
    /\ \E i \in DOMAIN questions : i \notin Matching
    /\ matches # << >>

\* an utterance that tokenizes to nothing, against a non-empty corpus
C3_WitnessEmpty ==
    /\ pc = "match_done"
    /\ user_input # << >>
    /\ split(user_input) = << >>
    /\ questions # << >>
    /\ matches = << >>

(***************************************************************************)
(* The presentation layer on its own: normalize() applied to an answer.    *)
(***************************************************************************)
\* "ab.cd", "xy.io/a-b", "go to", " ", "\n", "."
Fragments ==
    { << "a", "b", ".", "c", "d" >>,
      << "x", "y", ".", "i", "o", "/", "a", "-", "b" >>,
      << "g", "o", " ", "t", "o" >>,
      << " " >>,
      << "\n" >>,
      << "." >> }

NormalizeInit ==
    /\ pc = "normalize"
    /\ answer \in { Concat(fs) : fs \in SeqsUpTo(Fragments, MaxFragments) }
    /\ normalized = << >>
    /\ SplitIdle /\ RatioIdle /\ MatchIdle /\ SessionIdle

\* normalized = await normalize(answer)
Normalize ==
    /\ pc = "normalize"
    /\ normalized' = normalize(answer)
    /\ pc' = "normalize_done"
    /\ UNCHANGED << text, words, s1, s2, score, user_input, questions, matches,
                    instance_questions, answer, data, request, response, sent,
                    received, exc >>

NormalizeNext == Normalize

NormalizeSpec == NormalizeInit /\ [][NormalizeNext]_vars

RECURSIVE LinkedFrom(_, _, _, _)
\* str from position `from` on (0-based), with the spans ms[i..] each
\* replaced by the anchor of its own text and the rest as it is
LinkedFrom(str, ms, i, from) ==
    IF i > Len(ms)
    THEN Slice(str, from, Len(str))
    ELSE Slice(str, from, ms[i][1])
           \o Anchor(Slice(str, ms[i][1], ms[i][2]))
           \o LinkedFrom(str, ms, i + 1, ms[i][2])

\* C10: for an answer with any number of url matches, normalize returns the
\* answer, newlines replaced by <br>, with every matched span and only it
\* replaced by <a href='URL'>URL</a>, URL the matched text, and the text
\* outside the spans unchanged and in order.
C10_EveryUrlLinked ==
    pc = "normalize_done" =>
      normalized = LinkedFrom(ReplaceNewlines(answer),
                              finditer(ReplaceNewlines(answer)), 1, 0)

(***************************************************************************)
(* The websocket session: websocket_endpoint.                              *)
(***************************************************************************)
\* the messages a client sends: the well-formed requests
\*   {"type": "InputRequest", "input": "Abd abd abcd"}
\*   {"type": "InputRequest"}
\*   {"type": "QuestionRequest", "question": "abcd abcd"}
\*   {"type": "QuestionRequest", "question": "abd 12?"}
\*   {"type": "QuestionRequest", "question": "xyz"}      (not in the db)
\* and the malformed ones
\*   {"input": "abcde"}                                  (no discriminant)
\*   {"type": "DeleteRequest", "question": "abcde"}      (unknown kind)
\*   {"type": "InputRequest", "question": "abcde"}       (unexpected field)
Messages ==
    { [ type |-> "InputRequest",
        input |-> << "A", "b", "d", " ", "a", "b", "d", " ", "a", "b", "c", "d" >> ],
      [ type |-> "InputRequest" ],
      [ type |-> "QuestionRequest",
        question |-> << "a", "b", "c", "d", " ", "a", "b", "c", "d" >> ],
      [ type |-> "QuestionRequest",
        question |-> << "a", "b", "d", " ", "1", "2", "?" >> ],
      [ type |-> "QuestionRequest", question |-> << "x", "y", "z" >> ],
      [ input |-> << "a", "b", "c", "d", "e" >> ],
      [ type |-> "DeleteRequest", question |-> << "a", "b", "c", "d", "e" >> ],
      [ type |-> "InputRequest", question |-> << "a", "b", "c", "d", "e" >> ] }

Init ==
    /\ pc = "accept"
    /\ SessionIdle
    /\ SplitIdle /\ RatioIdle /\ MatchIdle /\ NormalizeIdle

\* await websocket.accept()
Accept ==
    /\ pc = "accept"
    /\ pc' = "receive"
    /\ UNCHANGED << text, words, s1, s2, score, user_input, questions, matches,
                    instance_questions, answer, normalized, data, request,
                    response, sent, received, exc >>

\* data = await websocket.receive_json(), the client sending message m
ReceiveJson(m) ==
    /\ pc = "receive"
    /\ Len(received) < MaxMessages
    /\ data' = m
    /\ received' = Append(received, m)
    /\ pc' = "get_request"
    /\ UNCHANGED << text, words, s1, s2, score, user_input, questions, matches,
                    instance_questions, answer, normalized, request, response,
                    sent, exc >>

\* await websocket.receive_json() raises WebSocketDisconnect, which the
\* endpoint catches: the coroutine returns
Disconnect ==
    /\ pc = "receive"
    /\ pc' = "closed"
    /\ UNCHANGED << text, words, s1, s2, score, user_input, questions, matches,
                    instance_questions, answer, normalized, data, request,
                    response, sent, received, exc >>

\* request = await get_request_object(data); an exception other than
\* WebSocketDisconnect leaves websocket_endpoint
GetRequestObject ==
    /\ pc = "get_request"
    /\ IF RequestError(data) = "none"
       THEN /\ request' = RequestObject(data)
            /\ data' = [ k \in (DOMAIN data) \ { "type" } |-> data[k] ]
            /\ pc' = "get_response"
            /\ exc' = exc
       ELSE /\ exc' = RequestError(data)
            /\ pc' = "raised"
            /\ UNCHANGED << data, request >>
    /\ UNCHANGED << text, words, s1, s2, score, user_input, questions, matches,
                    instance_questions, answer, normalized, response, sent,
                    received >>

\* response = await get_response_object(request)
GetResponseObject ==
    /\ pc = "get_response"
    /\ IF ResponseError(request) = "none"
       THEN /\ response' = ResponseObject(request)
            /\ pc' = "send"
            /\ exc' = exc
       ELSE /\ exc' = ResponseError(request)
            /\ pc' = "raised"
            /\ response' = response
    /\ UNCHANGED << text, words, s1, s2, score, user_input, questions, matches,
                    instance_questions, answer, normalized, data, request, sent,
                    received >>

\* await websocket.send_json(await response.to_dict())
SendJson ==
    /\ pc = "send"
    /\ sent' = Append(sent, to_dict(response))
    /\ pc' = "receive"
    /\ UNCHANGED << text, words, s1, s2, score, user_input, questions, matches,
                    instance_questions, answer, normalized, data, request,
                    response, received, exc >>

Next ==
    \/ Accept
    \/ \E m \in Messages : ReceiveJson(m)
    \/ Disconnect
    \/ GetRequestObject
    \/ GetResponseObject
    \/ SendJson

Spec == Init /\ [][Next]_vars

\* the last message received
LastReceived == received[Len(received)]

IsMalformed(m) ==
    \/ "type" \notin DOMAIN m
    \/ m.type \notin { "InputRequest", "QuestionRequest" }
    \/ \E k \in DOMAIN m : k \notin { "type" } \cup RequestFields[m.type]

IsUnknownQuestion(m) ==
    /\ ~IsMalformed(m)
    /\ m.type = "QuestionRequest"
    /\ \A i \in DOMAIN DB :
         DB[i].question # (IF "question" \in DOMAIN m THEN m.question ELSE << >>)

\* C7: a QuestionRequest for a question that is not in the corpus does not
\* end the websocket session with an unhandled error: the failure is
\* reported and the connection goes on to receive the next request.
C7_UnknownQuestionRecoverable ==
    (received # << >> /\ IsUnknownQuestion(LastReceived)) => pc # "raised"

\* C8: every received message that is a malformed tagged request or names an
\* unknown kind has an error reported back over the transport: when its
\* handling has ended, something was sent for it.
C8_MalformedReported ==
    (received # << >> /\ IsMalformed(LastReceived) /\ pc \in { "raised", "receive", "closed" })
      => Len(sent) = Len(received)

\* the response kind that matches a request kind
MatchingKind(request_kind) ==
    IF request_kind = "InputRequest" THEN "InputResponse" ELSE "QuestionResponse"

\* C9: the requests of a connection are served one at a time in arrival
\* order: when the next request is read every earlier one has exactly one
\* response, the i-th response answers the i-th request, its "type" is the
\* response kind matching the request's kind, and the question of a
\* QuestionResponse is the requested question.
C9_OneResponsePerRequestInOrder ==
    /\ pc = "accept" => received = << >> /\ sent = << >>
    /\ pc \in { "receive", "closed" } => Len(sent) = Len(received)
    /\ pc \in { "get_request", "get_response", "send", "raised" }
         => Len(sent) = Len(received) - 1
    /\ \A i \in DOMAIN sent :
         /\ ~IsMalformed(received[i])
         /\ sent[i].type = MatchingKind(received[i].type)
         /\ received[i].type = "QuestionRequest"
              => sent[i].question = received[i].question

\* a question response sent after an input response on the same connection
C9_Witness ==
    /\ pc = "receive"
    /\ Len(sent) >= 2
    /\ sent[1].type = "InputResponse"
    /\ sent[2].type = "QuestionResponse"

====
